---- MODULE Spec2Model ----
(***************************************************************************)
(* poof: a single-release, TTL-bounded secret store with two backends.     *)
(*   MemoryStore      src/poof.go 307-416       map + RWMutex + one        *)
(*                                              time.AfterFunc per entry   *)
(*   PersistentStore  src/unnamed/part_001      sqlite tables items/meta + *)
(*                                              a ticker-driven sweep      *)
(* Request handlers run concurrently; every action below is one critical   *)
(* section (memory) or one SQL statement (persistent) of a handler.        *)
(***************************************************************************)
EXTENDS Integers, Sequences, FiniteSets, TLC

\* ---- bounds of the model ------------------------------------------------
NumProcs == 2       \* concurrent request handlers
MaxClock == 2       \* the clock runs over 0..MaxClock (seconds)
MaxEntries == 2     \* successful Set calls in one behaviour
MaxSizeLimit == 1   \* the configured capacity is one of 0..MaxSizeLimit
MaxOpens == 2       \* NewPersistentStore calls on the same database

Procs == 1..NumProcs
Encs == {"a", "b"}
Hashes == {"h1", "h2"}     \* what a Get presents
SetHashes == {"h1"}        \* what a Set stores
TTLs == {1}
Seeds == {"s1"}
NilSeed == "nil"
Ids == 1..MaxEntries

\* the SHA-256 of seed || s: collision free, so the pair itself
sha(sd, s) == <<sd, s>>

Keys == (Seeds \cup {NilSeed}) \X Encs
NoKey == <<"none", "">>

VARIABLES
    send,       \* the POST /api/send request being handled and its answer
    backend,    \* which implementation of IStore was constructed
    sizeLimit,  \* MemoryStore.sizeLimit / PersistentStore.maxItems
    clock,      \* time.Now().Unix()
    \* MemoryStore
    seed,       \* MemoryStore.seed
    data,       \* MemoryStore.data: Key -> *memEntry (0: no entry)
    timer,      \* the time.Timer of each entry
    added, expired, burned,
    \* PersistentStore
    db,         \* the sql.DB handle: "open" or "closed"
    items,      \* table items: the set of rows (primary key: key)
    meta,       \* table meta: its rows [seed, added, expired, burned]
    psSeed,     \* PersistentStore.seed
    gc,         \* the ticker ps.gc: TRUE while it runs
    sweep,      \* the sweep goroutine: [pc, n, rows]
    closer,     \* the caller of Close: [pc, n, rows]
    opens,      \* number of NewPersistentStore calls so far
    \* request handlers
    pc, call,
    last,       \* what the step just taken returned to its caller, if it did
    \* the entries ever created: *memEntry objects / rows. Immutable fields.
    ents,
    \* observation of the run (not program state)
    fate,       \* how each entry left the collection
    acct,       \* counter increments made for each entry
    releases    \* number of Get calls that returned ok=true for each entry

memVars == <<seed, data, timer, added, expired, burned>>
psVars == <<db, items, meta, psSeed, gc, sweep, closer, opens>>
obsVars == <<fate, acct, releases>>
vars == <<send, backend, sizeLimit, clock, seed, data, timer, added, expired,
          burned, db, items, meta, psSeed, gc, sweep, closer, opens,
          pc, call, last, ents, fate, acct, releases>>

\* ---- records ------------------------------------------------------------
NoMetrics == [size |-> 0, added |-> 0, expired |-> 0, burned |-> 0]

\* the locals of a call in progress:
\*   v      the entry the call found or created (0: none)
\*   late   the entry had already been released when this Get found it
\*   stale  the entry's ttl had already elapsed when this Get found it
\*   rt     this Get started right after the return of the successful Set
\*          whose key and hash it presents
\*   m0     the Metrics just before that Set (a Set: just before itself)
NoCall == [op |-> "none", key |-> NoKey, enc |-> "", hash |-> "", ttl |-> 0,
           v |-> 0, late |-> FALSE, stale |-> FALSE, rt |-> FALSE,
           m0 |-> NoMetrics]

\* what a call returned (enc, ok) with the locals of the call. For a Get that
\* found nothing to remove, v is the entry stored under the key or, when
\* there is none, the entry last stored under that key and hash; match: v
\* carries the hash presented
NoRet == [op |-> "none", enc |-> "", ok |-> FALSE, v |-> 0, match |-> FALSE,
          late |-> FALSE, stale |-> FALSE, rt |-> FALSE, m0 |-> NoMetrics]

NoFate == [how |-> "none", by |-> 0]
NoAcct == [b |-> 0, x |-> 0]

\* the Key pointer of a Send answer that carries no key
NullKey == <<"null">>

\* the POST /api/send handler: where it is (st), the goroutine it runs on (p),
\* the form values it read, the ttl it parsed, and the answer it wrote
NoSend == [st |-> "idle", p |-> 0, enc |-> <<>>, hash |-> <<>>, sttl |-> <<>>,
           ttl |-> 0, code |-> 0, key |-> NullKey, errors |-> <<>>]

\* ---- helpers ------------------------------------------------------------
\* len(kv.data)
MemLen == Cardinality({k \in Keys : data[k] # 0})

\* SELECT count(*) FROM items
ItemCount == Cardinality(items)

\* the row of items with primary key k, 0 if there is none
RowOf(k) == IF \E e \in items : ents[e].key = k
            THEN CHOOSE e \in items : ents[e].key = k
            ELSE 0

\* Metrics(): size, added, expired, burned of the constructed store
\* (readMetrics: the first row of meta; zeroes when the query fails)
Metrics == IF backend = "memory"
           THEN [size |-> MemLen, added |-> added, expired |-> expired,
                 burned |-> burned]
           ELSE IF db = "open" /\ meta # <<>>
           THEN [size |-> ItemCount, added |-> meta[1].added,
                 expired |-> meta[1].expired, burned |-> meta[1].burned]
           ELSE NoMetrics

\* the keys a caller can present: derived from a ciphertext under the
\* store's seed, or returned by an earlier Set
GetKeys == {sha(IF backend = "memory" THEN seed ELSE psSeed, c) : c \in Encs}
           \cup {ents[i].key : i \in 1..Len(ents)}

\* the step just taken was the return of a successful Set of this key and hash
FollowsSet(k, h) ==
    /\ last.op = "set" /\ last.ok
    /\ ents[last.v].key = k /\ ents[last.v].hash = h

\* ---- construction -------------------------------------------------------
\* the state of a goroutine that runs evict: n is the RowsAffected of its
\* DELETE, rows the rows that DELETE removed
Goroutine(at) == [pc |-> at, n |-> 0, rows |-> {}]

\* after NewMemoryStore(max), or before NewPersistentStore(max, dsn) opens a
\* database file that does not exist yet
Init ==
    /\ send = NoSend
    /\ backend \in {"memory", "persistent"}
    /\ sizeLimit \in 0..MaxSizeLimit
    /\ clock = 0
    /\ seed \in Seeds
    /\ data = [k \in Keys |-> 0]
    /\ timer = [e \in Ids |-> "none"]
    /\ added = 0 /\ expired = 0 /\ burned = 0
    /\ db = "closed"
    /\ items = {}
    /\ meta = <<>>
    /\ psSeed = NilSeed
    /\ gc = FALSE
    /\ sweep = Goroutine("none")
    /\ closer = Goroutine("idle")
    /\ opens = 0
    /\ pc = [p \in Procs |-> "idle"]
    /\ call = [p \in Procs |-> NoCall]
    /\ last = NoRet
    /\ ents = <<>>
    /\ fate = [e \in Ids |-> NoFate]
    /\ acct = [e \in Ids |-> NoAcct]
    /\ releases = [e \in Ids |-> 0]

\* ---- time ---------------------------------------------------------------
Tick ==
    /\ clock < MaxClock
    /\ clock' = clock + 1
    /\ last' = NoRet
    /\ UNCHANGED <<send, backend, sizeLimit, memVars, psVars, pc, call, ents,
                   obsVars>>

\* ---- MemoryStore ---------------------------------------------------------
\* a new *memEntry / row; opened: the NewPersistentStore call it was stored under
Entry(key, enc, hash, expiry, opened) ==
    [key |-> key, enc |-> enc, hash |-> hash, expiry |-> expiry,
     opened |-> opened]

\* what a Set that stored entry id returns; m0: the Metrics just before it
SetOk(id, m0) == [NoRet EXCEPT !.op = "set", !.ok = TRUE, !.v = id, !.m0 = m0]

\* what a Set that stored nothing returns
SetFail == [NoRet EXCEPT !.op = "set"]

\* the locals of a Get of key k that found entry v with the hash presented
GetCall(k, hash, v) ==
    [NoCall EXCEPT !.op = "get", !.key = k, !.hash = hash, !.v = v,
                   !.late = releases[v] > 0,
                   !.stale = clock > ents[v].expiry,
                   !.rt = FollowsSet(k, hash),
                   !.m0 = IF FollowsSet(k, hash) THEN last.m0 ELSE NoMetrics]

\* the entry last stored under key k with this hash, 0 if there was none
Named(k, hash) ==
    LET S == {e \in 1..Len(ents) : ents[e].key = k /\ ents[e].hash = hash}
    IN IF S = {} THEN 0 ELSE CHOOSE e \in S : \A f \in S : f <= e

\* what a Get that found nothing to remove returns; cur: the entry stored
\* under the key (0: none)
GetMiss(k, hash, cur) ==
    LET v == IF cur # 0 THEN cur ELSE Named(k, hash)
    IN [NoRet EXCEPT !.op = "get", !.v = v,
                     !.match = (v # 0 /\ ents[v].hash = hash),
                     !.rt = FollowsSet(k, hash),
                     !.m0 = IF FollowsSet(k, hash) THEN last.m0 ELSE NoMetrics]

\* what a Get returns when its query fails (a closed handle)
GetError == [NoRet EXCEPT !.op = "get"]

\* a return that hands out what the query scanned, whatever the outcome
GetRetScanned(c, enc, ok) ==
    [NoRet EXCEPT !.op = "get", !.enc = ents[c.v].enc, !.ok = ok, !.v = c.v,
                  !.match = TRUE, !.late = c.late, !.stale = c.stale,
                  !.rt = c.rt, !.m0 = c.m0]

\* what a Get with locals c returns after it removed the entry
GetRet(c, enc, ok) ==
    [NoRet EXCEPT !.op = "get", !.enc = enc, !.ok = ok, !.v = c.v,
                  !.match = TRUE, !.late = c.late, !.stale = c.stale,
                  !.rt = c.rt, !.m0 = c.m0]

\* the capacity test with < for <=: a full store accepts one more entry
MemOverCapacity == sizeLimit > 0 /\ sizeLimit < MemLen

\* a Set that never tests the capacity
MemNoLimit == FALSE

\* the capacity test of MemoryStore.Set
MemAtCapacity == sizeLimit > 0 /\ sizeLimit <= MemLen

\* MemoryStore.Set: one write-locked section
MemoryStoreSet(p, enc, hash, ttl) ==
    /\ backend = "memory"
    /\ pc[p] = "idle"
    /\ LET key == sha(seed, enc) IN
       IF MemAtCapacity
       THEN /\ last' = SetFail
            /\ UNCHANGED <<memVars, ents, obsVars>>
       ELSE /\ Len(ents) < MaxEntries
            /\ LET id == Len(ents) + 1
                   old == data[key]
               IN /\ ents' = Append(ents, Entry(key, enc, hash, clock + ttl, 0))
                  /\ timer' = [timer EXCEPT ![id] = "pending"]
                  /\ data' = [data EXCEPT ![key] = id]
                  /\ added' = added + 1
                  /\ fate' = IF old # 0
                             THEN [fate EXCEPT ![old] = [how |-> "set", by |-> id]]
                             ELSE fate
                  /\ last' = SetOk(id, Metrics)
                  /\ UNCHANGED <<seed, expired, burned, acct, releases>>
    /\ UNCHANGED <<send, backend, sizeLimit, clock, psVars, pc, call>>

\* a delete that leaves the map as it is
MemKept(k) == data

\* the map after MemoryStore.delete's delete(kv.data, k)
MemDeleted(k) == [data EXCEPT ![k] = 0]

\* MemoryStore.delete(k, isBurn) called for entry `by`: one write-locked
\* section
MemoryStoreDelete(k, isBurn, by) ==
    /\ data' = MemDeleted(k)
    /\ IF isBurn
       THEN /\ burned' = burned + 1
            /\ acct' = [acct EXCEPT ![by].b = @ + 1]
            /\ UNCHANGED expired
       ELSE /\ expired' = expired + 1
            /\ acct' = [acct EXCEPT ![by].x = @ + 1]
            /\ UNCHANGED burned
    /\ fate' = IF data[k] # 0
               THEN [fate EXCEPT ![data[k]] =
                        [how |-> IF isBurn THEN "get" ELSE "timer", by |-> by]]
               ELSE fate

\* the runtime fires the timer of entry e: the callback goroutine starts
TimerExpire(e) ==
    /\ backend = "memory"
    /\ timer[e] = "pending"
    /\ clock >= ents[e].expiry
    /\ timer' = [timer EXCEPT ![e] = "fired"]
    /\ last' = NoRet
    /\ UNCHANGED <<send, backend, sizeLimit, clock, seed, data, added, expired,
                   burned, psVars, pc, call, ents, obsVars>>

\* the callback of entry e's timer: kv.delete(key, false)
TimerCallback(e) ==
    /\ backend = "memory"
    /\ timer[e] = "fired"
    /\ MemoryStoreDelete(ents[e].key, FALSE, e)
    /\ timer' = [timer EXCEPT ![e] = "done"]
    /\ last' = NoRet
    /\ UNCHANGED <<send, backend, sizeLimit, clock, seed, added, psVars, pc, call,
                   ents, releases>>

\* the hit test of MemoryStore.Get
MemHit(k, hash) == data[k] # 0 /\ ents[data[k]].hash = hash

\* MemoryStore.Get, the read-locked lookup
MemoryStoreGet(p, k, hash) ==
    /\ backend = "memory"
    /\ pc[p] = "idle"
    /\ k \in Keys
    /\ IF ~MemHit(k, hash)
       THEN /\ last' = GetMiss(k, hash, data[k])
            /\ UNCHANGED <<pc, call>>
       ELSE /\ call' = [call EXCEPT ![p] = GetCall(k, hash, data[k])]
            /\ pc' = [pc EXCEPT ![p] = "cancel"]
            /\ last' = NoRet
    /\ UNCHANGED <<send, backend, sizeLimit, clock, memVars, psVars, ents, obsVars>>

\* MemoryStore.Get, v.CancelEviction(): timer.Stop() without the lock
MemoryStoreGetCancel(p) ==
    /\ pc[p] = "cancel"
    /\ timer' = [timer EXCEPT ![call[p].v] =
                    IF @ = "pending" THEN "stopped" ELSE @]
    /\ pc' = [pc EXCEPT ![p] = "delete"]
    /\ last' = NoRet
    /\ UNCHANGED <<send, backend, sizeLimit, clock, seed, data, added, expired,
                   burned, psVars, call, ents, obsVars>>

\* MemoryStore.Get, kv.delete(k, true) and the return of v.Enc, true
MemoryStoreGetDelete(p) ==
    /\ pc[p] = "delete"
    /\ LET c == call[p] IN
       /\ MemoryStoreDelete(c.key, TRUE, c.v)
       /\ releases' = [releases EXCEPT ![c.v] = @ + 1]
       /\ last' = GetRet(c, ents[c.v].enc, TRUE)
    /\ pc' = [pc EXCEPT ![p] = "idle"]
    /\ call' = [call EXCEPT ![p] = NoCall]
    /\ UNCHANGED <<send, backend, sizeLimit, clock, seed, timer, added, psVars,
                   ents>>

\* MemoryStore.Close: a no-op; closer records that it has returned
MemoryStoreClose ==
    /\ backend = "memory"
    /\ closer.pc = "idle"
    /\ closer' = Goroutine("closed")
    /\ last' = NoRet
    /\ UNCHANGED <<send, backend, sizeLimit, clock, memVars, db, items, meta,
                   psSeed, gc, sweep, opens, pc, call, ents, obsVars>>

\* ---- PersistentStore ------------------------------------------------------
\* base64.RawURLEncoding of the seed, and its decoding
EncodeToString(sd) == <<"b64", sd>>
DecodeString(t) == t[2]

\* an UPDATE of meta that adds n to every counter, not to column f alone
UpdateMetaAll(f, n) ==
    [i \in DOMAIN meta |->
        [meta[i] EXCEPT !.added = @ + n, !.expired = @ + n, !.burned = @ + n]]

\* UPDATE meta SET f = f + n (every row of meta)
UpdateMeta(f, n) == [i \in DOMAIN meta |-> [meta[i] EXCEPT ![f] = @ + n]]

\* an UPDATE of meta that goes through on a closed handle too
ExecUpdateMetaAnyway(f, n) == UpdateMeta(f, n)

\* the same statement on the handle as it is: it fails on a closed handle
ExecUpdateMeta(f, n) == IF db = "open" THEN UpdateMeta(f, n) ELSE meta

\* NewPersistentStore: sql.Open, initDB, the ticker and the sweep goroutine.
\* initDB assigns the fresh seed to a variable of the inner block, so the
\* first run returns the named result seed as it was declared: nil
NewPersistentStore ==
    /\ backend = "persistent"
    /\ db = "closed"
    /\ opens < MaxOpens
    /\ closer.pc \in {"idle", "closed"}
    /\ sweep.pc \in {"none", "wait"}
    /\ \A p \in Procs : pc[p] = "idle"
    /\ IF meta = <<>>
       THEN /\ \E sd \in Seeds :
                 meta' = <<[seed |-> EncodeToString(sd), added |-> 0,
                            expired |-> 0, burned |-> 0]>>
            /\ psSeed' = NilSeed
       ELSE /\ psSeed' = DecodeString(meta[1].seed)
            /\ UNCHANGED meta
    /\ db' = "open"
    /\ gc' = TRUE
    /\ sweep' = Goroutine("evict")
    /\ closer' = Goroutine("idle")
    /\ opens' = opens + 1
    /\ last' = NoRet
    /\ UNCHANGED <<send, backend, sizeLimit, clock, memVars, items, pc, call, ents,
                   obsVars>>

\* an eviction with <= for <: a row goes in the second it expires
ExpiredOrDue == {e \in items : ents[e].expiry <= clock}

\* the statements of NewPersistentStore and initDB that can fail
OpenErrors == {"open", "schema", "read", "insert", "decode"}

\* what NewPersistentStore returns with an error: no store
OpenError == [NoRet EXCEPT !.op = "open"]

\* a sweep goroutine started although the open failed at statement `at`
SweepStarted(at) == Goroutine("evict")

\* the sweep goroutine after an open that failed at statement `at`: every
\* `return nil, err` comes before `go func()`, so none is started
SweepOnError(at) == sweep

\* NewPersistentStore when sql.Open or a statement of initDB fails: createMeta
\* runs only when there is no meta row, DecodeString only when there is one
NewPersistentStoreError(at) ==
    /\ backend = "persistent"
    /\ db = "closed"
    /\ opens < MaxOpens
    /\ closer.pc \in {"idle", "closed"}
    /\ sweep.pc \in {"none", "wait"}
    /\ \A p \in Procs : pc[p] = "idle"
    /\ at = "insert" => meta = <<>>
    /\ at = "decode" => meta # <<>>
    /\ sweep' = SweepOnError(at)
    /\ last' = OpenError
    /\ UNCHANGED <<send, backend, sizeLimit, clock, memVars, db, items, meta,
                   psSeed, gc, closer, opens, pc, call, ents, obsVars>>

\* an evictionQuery that matches no row
ExpiredNone == {}

\* the rows evictionQuery deletes: expiry < strftime('%s','now')
Expired == {e \in items : ents[e].expiry < clock}

\* a Get that never looks at the expiry it scanned
IsExpiredNever(e) == FALSE

\* Get's test with >= for >: a row is expired in its last second already
IsExpiredOrDue(e) == clock >= ents[e].expiry

\* Get's test time.Now().Unix() > expiry
IsExpired(e) == clock > ents[e].expiry

\* an evict that returns after its DELETE and never counts the rows
EvictDeleteOnly(g, done) == [g EXCEPT !.pc = done]

\* evict, the DELETE: g is the goroutine's state, done where it goes when
\* evict returns
EvictDelete(g, done) ==
    IF db # "open"
    THEN [g EXCEPT !.pc = done]
    ELSE IF Expired = {}
    THEN [g EXCEPT !.pc = done, !.n = 0, !.rows = {}]
    ELSE [g EXCEPT !.pc = "update", !.n = Cardinality(Expired),
                   !.rows = Expired]

\* an eviction without its WHERE clause: every row goes
ItemsCleared == IF db = "open" THEN {} ELSE items

\* the table items after evictionQuery
ItemsEvicted == IF db = "open" THEN items \ Expired ELSE items

FateEvicted(how) ==
    [e \in Ids |-> IF db = "open" /\ e \in Expired
                   THEN [how |-> how, by |-> 0]
                   ELSE fate[e]]

\* evict, UPDATE meta SET expired = expired + n
AcctEvicted(g) ==
    [e \in Ids |-> IF db = "open" /\ meta # <<>> /\ e \in g.rows
                   THEN [acct[e] EXCEPT !.x = @ + 1]
                   ELSE acct[e]]

\* the sweep goroutine: evict(db), the DELETE
SweepEvict ==
    /\ backend = "persistent"
    /\ sweep.pc = "evict"
    /\ sweep' = EvictDelete(sweep, "wait")
    /\ items' = ItemsEvicted
    /\ fate' = FateEvicted("sweep")
    /\ last' = NoRet
    /\ UNCHANGED <<send, backend, sizeLimit, clock, memVars, db, meta, psSeed, gc,
                   closer, opens, pc, call, ents, acct, releases>>

\* the sweep goroutine: evict(db), the UPDATE of expired
SweepUpdate ==
    /\ backend = "persistent"
    /\ sweep.pc = "update"
    /\ meta' = ExecUpdateMeta("expired", sweep.n)
    /\ acct' = AcctEvicted(sweep)
    /\ sweep' = Goroutine("wait")
    /\ last' = NoRet
    /\ UNCHANGED <<send, backend, sizeLimit, clock, memVars, db, items, psSeed, gc,
                   closer, opens, pc, call, ents, fate, releases>>

\* the sweep goroutine: <-ps.gc.C. A tick sent before gc.Stop() and received
\* after it leaves the goroutine where a tick received just before the Stop
\* leaves it, so the tick is received when the running ticker sends it
SweepWake ==
    /\ backend = "persistent"
    /\ sweep.pc = "wait"
    /\ gc
    /\ sweep' = Goroutine("evict")
    /\ last' = NoRet
    /\ UNCHANGED <<send, backend, sizeLimit, clock, memVars, db, items, meta,
                   psSeed, gc, closer, opens, pc, call, ents, obsVars>>

\* PersistentStore.Close: ps.gc.Stop()
PersistentStoreClose ==
    /\ backend = "persistent"
    /\ db = "open"
    /\ closer.pc = "idle"
    /\ gc' = FALSE
    /\ closer' = Goroutine("evict")
    /\ last' = NoRet
    /\ UNCHANGED <<send, backend, sizeLimit, clock, memVars, db, items, meta,
                   psSeed, sweep, opens, pc, call, ents, obsVars>>

\* PersistentStore.Close: evict(ps.db), the DELETE
CloseEvict ==
    /\ closer.pc = "evict"
    /\ closer' = EvictDelete(closer, "dbclose")
    /\ items' = ItemsEvicted
    /\ fate' = FateEvicted("close")
    /\ last' = NoRet
    /\ UNCHANGED <<send, backend, sizeLimit, clock, memVars, db, meta, psSeed, gc,
                   sweep, opens, pc, call, ents, acct, releases>>

\* PersistentStore.Close: evict(ps.db), the UPDATE of expired
CloseUpdate ==
    /\ closer.pc = "update"
    /\ meta' = ExecUpdateMeta("expired", closer.n)
    /\ acct' = AcctEvicted(closer)
    /\ closer' = [closer EXCEPT !.pc = "dbclose"]
    /\ last' = NoRet
    /\ UNCHANGED <<send, backend, sizeLimit, clock, memVars, db, items, psSeed, gc,
                   sweep, opens, pc, call, ents, fate, releases>>

\* PersistentStore.Close: ps.db.Close()
CloseDB ==
    /\ closer.pc = "dbclose"
    /\ db' = "closed"
    /\ closer' = Goroutine("closed")
    /\ last' = NoRet
    /\ UNCHANGED <<send, backend, sizeLimit, clock, memVars, items, meta, psSeed,
                   gc, sweep, opens, pc, call, ents, obsVars>>

\* getQuery without its hash condition: key = ?
GetQueryRowByKey(k, hash) == IF db = "open" THEN RowOf(k) ELSE 0

\* the row getQuery deletes and returns: key = ? AND hash = ?
GetQueryRow(k, hash) ==
    IF db = "open" /\ RowOf(k) # 0 /\ ents[RowOf(k)].hash = hash
    THEN RowOf(k)
    ELSE 0

\* a getQuery that selects the row and leaves it in the table
ItemsRead(k, hash) == items

\* the table items after getQuery
ItemsGot(k, hash) == items \ {GetQueryRow(k, hash)}

\* PersistentStore.Get: getQuery, DELETE ... RETURNING enc, expiry
PersistentStoreGet(p, k, hash) ==
    /\ backend = "persistent"
    /\ opens > 0
    /\ pc[p] = "idle"
    /\ LET r == GetQueryRow(k, hash) IN
       IF r = 0
       THEN /\ last' = IF db = "open" THEN GetMiss(k, hash, RowOf(k))
                       ELSE GetError
            /\ items' = ItemsGot(k, hash)
            /\ UNCHANGED <<pc, call, fate>>
       ELSE /\ items' = ItemsGot(k, hash)
            /\ fate' = [fate EXCEPT ![r] = [how |-> "get", by |-> r]]
            /\ call' = [call EXCEPT ![p] = GetCall(k, hash, r)]
            /\ pc' = [pc EXCEPT ![p] = "metric"]
            /\ last' = NoRet
    /\ UNCHANGED <<send, backend, sizeLimit, clock, memVars, db, meta, psSeed, gc,
                   sweep, closer, opens, ents, acct, releases>>

\* PersistentStore.Get: the expiry test, the UPDATE of expired or burned and
\* the return
PersistentStoreGetMetric(p) ==
    /\ backend = "persistent"
    /\ pc[p] = "metric"
    /\ LET c == call[p]
           counted == db = "open" /\ meta # <<>>
       IN
       IF IsExpired(c.v)
       THEN /\ meta' = ExecUpdateMeta("expired", 1)
            /\ acct' = IF counted THEN [acct EXCEPT ![c.v].x = @ + 1] ELSE acct
            /\ last' = GetRet(c, "", FALSE)
            /\ UNCHANGED releases
       ELSE /\ meta' = ExecUpdateMeta("burned", 1)
            /\ acct' = IF counted THEN [acct EXCEPT ![c.v].b = @ + 1] ELSE acct
            /\ last' = GetRet(c, ents[c.v].enc, TRUE)
            /\ releases' = [releases EXCEPT ![c.v] = @ + 1]
    /\ pc' = [pc EXCEPT ![p] = "idle"]
    /\ call' = [call EXCEPT ![p] = NoCall]
    /\ UNCHANGED <<send, backend, sizeLimit, clock, memVars, db, items, psSeed, gc,
                   sweep, closer, opens, ents, fate>>

\* the capacity test of MemoryStore.Set on the row count: 0 is no limit
PSAtCapacityGuarded(size) == sizeLimit > 0 /\ size >= sizeLimit

\* the capacity test with > for >=: a full table accepts one more row
PSOverCapacity(size) == size > sizeLimit

\* the capacity test of PersistentStore.Set on the count it read
PSAtCapacity(size) == size >= sizeLimit

\* PersistentStore.Set: the key, SELECT count(*) FROM items and the test
PersistentStoreSet(p, enc, hash, ttl) ==
    /\ backend = "persistent"
    /\ opens > 0
    /\ pc[p] = "idle"
    /\ IF db # "open" \/ PSAtCapacity(ItemCount)
       THEN /\ last' = SetFail
            /\ UNCHANGED <<pc, call>>
       ELSE /\ Len(ents) + Cardinality({q \in Procs : pc[q] = "insert"})
                 < MaxEntries
            /\ call' = [call EXCEPT ![p] =
                          [NoCall EXCEPT !.op = "set",
                                         !.key = sha(psSeed, enc),
                                         !.enc = enc, !.hash = hash,
                                         !.ttl = ttl, !.m0 = Metrics]]
            /\ pc' = [pc EXCEPT ![p] = "insert"]
            /\ last' = NoRet
    /\ UNCHANGED <<send, backend, sizeLimit, clock, memVars, psVars, ents, obsVars>>

\* PersistentStore.Set: INSERT INTO items; it fails on a closed handle and on
\* a key that is already in the table (key is the PRIMARY KEY)
PersistentStoreSetInsert(p) ==
    /\ backend = "persistent"
    /\ pc[p] = "insert"
    /\ LET c == call[p] IN
       IF db # "open" \/ RowOf(c.key) # 0
       THEN /\ last' = SetFail
            /\ pc' = [pc EXCEPT ![p] = "idle"]
            /\ call' = [call EXCEPT ![p] = NoCall]
            /\ UNCHANGED <<items, ents>>
       ELSE /\ ents' = Append(ents, Entry(c.key, c.enc, c.hash,
                                          clock + c.ttl, opens))
            /\ items' = items \cup {Len(ents) + 1}
            /\ call' = [call EXCEPT ![p].v = Len(ents) + 1]
            /\ pc' = [pc EXCEPT ![p] = "added"]
            /\ last' = NoRet
    /\ UNCHANGED <<send, backend, sizeLimit, clock, memVars, db, meta, psSeed, gc,
                   sweep, closer, opens, obsVars>>

\* PersistentStore.Set: UPDATE meta SET added = added+1 and the return
PersistentStoreSetAdded(p) ==
    /\ backend = "persistent"
    /\ pc[p] = "added"
    /\ meta' = ExecUpdateMeta("added", 1)
    /\ last' = SetOk(call[p].v, call[p].m0)
    /\ pc' = [pc EXCEPT ![p] = "idle"]
    /\ call' = [call EXCEPT ![p] = NoCall]
    /\ UNCHANGED <<send, backend, sizeLimit, clock, memVars, db, items, psSeed, gc,
                   sweep, closer, opens, ents, obsVars>>

MemNext ==
    \/ \E p \in Procs, enc \in Encs, hash \in SetHashes, ttl \in TTLs :
          MemoryStoreSet(p, enc, hash, ttl)
    \/ \E p \in Procs, k \in GetKeys, hash \in Hashes : MemoryStoreGet(p, k, hash)
    \/ \E p \in Procs : MemoryStoreGetCancel(p)
    \/ \E p \in Procs : MemoryStoreGetDelete(p)
    \/ \E e \in 1..Len(ents) : TimerExpire(e)
    \/ \E e \in 1..Len(ents) : TimerCallback(e)
    \/ MemoryStoreClose

PSNext ==
    \/ NewPersistentStore
    \/ \E at \in OpenErrors : NewPersistentStoreError(at)
    \/ \E p \in Procs, enc \in Encs, hash \in SetHashes, ttl \in TTLs :
          PersistentStoreSet(p, enc, hash, ttl)
    \/ \E p \in Procs : PersistentStoreSetInsert(p)
    \/ \E p \in Procs : PersistentStoreSetAdded(p)
    \/ \E p \in Procs, k \in GetKeys, hash \in Hashes :
          PersistentStoreGet(p, k, hash)
    \/ \E p \in Procs : PersistentStoreGetMetric(p)
    \/ SweepEvict
    \/ SweepUpdate
    \/ SweepWake
    \/ PersistentStoreClose
    \/ CloseEvict
    \/ CloseUpdate
    \/ CloseDB

Next ==
    \/ Tick
    \/ MemNext
    \/ PSNext

Spec == Init /\ [][Next]_vars

\* ---- the HTTP layer: POST /api/send -----------------------------------------
\* a form value is a string: the sequence of its characters
Repeat(c, n) == [i \in 1..n |-> c]

\* strings.Split(s, sep): the fields of s between the separators
RECURSIVE Split(_, _)
Split(s, sep) ==
    IF \A i \in 1..Len(s) : s[i] # sep
    THEN <<s>>
    ELSE LET i == CHOOSE i \in 1..Len(s) :
                      s[i] = sep /\ \A j \in 1..(i - 1) : s[j] # sep
         IN <<SubSeq(s, 1, i - 1)>> \o Split(SubSeq(s, i + 1, Len(s)), sep)

DigitChars == {"0", "1", "2", "3", "4", "5", "6", "7", "8", "9"}

DigitOf(c) ==
    CASE c = "0" -> 0 [] c = "1" -> 1 [] c = "2" -> 2 [] c = "3" -> 3
      [] c = "4" -> 4 [] c = "5" -> 5 [] c = "6" -> 6 [] c = "7" -> 7
      [] c = "8" -> 8 [] c = "9" -> 9

\* the value of a sequence of decimal digits
RECURSIVE ParseUint(_)
ParseUint(s) ==
    IF s = <<>> THEN 0
    ELSE 10 * ParseUint(SubSeq(s, 1, Len(s) - 1)) + DigitOf(s[Len(s)])

\* strconv.Atoi(s): an optional sign and decimal digits, an error otherwise
\* (the texts tried have at most six digits: none is out of the range of int)
Atoi(s) ==
    LET signed == s # <<>> /\ s[1] \in {"+", "-"}
        body == IF signed THEN Tail(s) ELSE s
    IN IF body = <<>> \/ \E i \in 1..Len(body) : body[i] \notin DigitChars
       THEN [err |-> TRUE, n |-> 0]
       ELSE [err |-> FALSE,
             n |-> IF s[1] = "-" THEN 0 - ParseUint(body) ELSE ParseUint(body)]

\* the characters of the ciphertexts and of the hash the stores are given
Spelled(t) ==
    CASE t = "a" -> <<"i", ":", "s", ":", "c">>
      [] t = "b" -> <<":", ":">>
      [] t = "h1" -> Repeat("h", 43)

\* the ciphertext, and the hash, that a form value spells
Text(chars) == CHOOSE t \in Encs \cup SetHashes : Spelled(t) = chars

\* the enc, hash and ttl form values tried
FormEncs ==
    {Spelled(e) : e \in Encs} \cup
    {<<>>, <<"i">>, <<"i", ":", "s">>, <<"i", ":", "s", ":", "c", ":", "x">>}
FormHashes ==
    {Spelled(h) : h \in SetHashes} \cup
    {<<>>, Repeat("h", 42), Repeat("h", 44)}
FormTTLs ==
    {<<>>, <<"x">>, <<"6", "0", "s">>, <<"0">>, <<"-", "1">>, <<"5", "9">>,
     <<"6", "0">>, <<"6", "0", "4", "8", "0", "0">>,
     <<"6", "0", "4", "8", "0", "1">>}

\* the errors the handler collects for each form value, in its order (the
\* messages without their backquotes)
EncErrors(enc) ==
    IF enc = <<>> THEN <<"enc was empty">>
    ELSE IF Len(Split(enc, ":")) # 3
    THEN <<"enc is not correctly formatted">>
    ELSE <<>>

HashErrors(hash) ==
    IF hash = <<>> THEN <<"hash was empty">>
    ELSE IF Len(hash) # 43
    THEN <<"hash does not look like a base64url encoded SHA256 hash">>
    ELSE <<>>

\* a handler that lets every integer ttl through
TTLUnchecked(ttl) == <<>>

\* the two tests of the parsed ttl
TTLOutOfRange(ttl) ==
    IF ttl < 60 THEN <<"ttl was less than 1 minute">>
    ELSE IF ttl > 86400 * 7 THEN <<"ttl was greater than 7 days">>
    ELSE <<>>

TTLErrors(sttl) ==
    IF sttl = <<>> THEN <<"ttl was empty">>
    ELSE IF Atoi(sttl).err THEN <<"ttl was not an integer">>
    ELSE TTLOutOfRange(Atoi(sttl).n)

SendErrors(enc, hash, sttl) ==
    EncErrors(enc) \o HashErrors(hash) \o TTLErrors(sttl)

\* jsonResponse(w, code, res)
Answer(code, key, errors) ==
    [send EXCEPT !.st = "done", !.code = code, !.key = key, !.errors = errors]

\* the handler up to `if len(res.Errors) > 0`: r.ParseForm() (parsed: it
\* returned no error), the three form values and their tests; it answers 400
\* or goes on to kv.Set
ApiSend(p, parsed, enc, hash, sttl) ==
    /\ send.st = "idle"
    /\ pc[p] = "idle"
    /\ opens > 0 \/ backend = "memory"
    /\ send' =
         IF ~parsed
         THEN [Answer(400, NullKey, <<"ParseForm">>) EXCEPT
                  !.p = p, !.enc = <<>>, !.hash = <<>>, !.sttl = <<>>,
                  !.ttl = 0]
         ELSE LET errs == SendErrors(enc, hash, sttl) IN
              IF errs # <<>>
              THEN [Answer(400, NullKey, errs) EXCEPT
                       !.p = p, !.enc = enc, !.hash = hash, !.sttl = sttl,
                       !.ttl = Atoi(sttl).n]
              ELSE [NoSend EXCEPT
                       !.st = "set", !.p = p, !.enc = enc, !.hash = hash,
                       !.sttl = sttl, !.ttl = Atoi(sttl).n]
    /\ last' = NoRet
    /\ UNCHANGED <<backend, sizeLimit, clock, memVars, psVars, pc, call, ents,
                   obsVars>>

\* the handler's kv.Set(enc, hash, ttl), on the store constructed
ApiSendSet ==
    /\ send.st = "set"
    /\ pc[send.p] = "idle"
    /\ last.op # "set"
    /\ \/ MemoryStoreSet(send.p, Text(send.enc), Text(send.hash), send.ttl)
       \/ PersistentStoreSet(send.p, Text(send.enc), Text(send.hash),
                             send.ttl)

\* the handler after kv.Set returned: 503 without a key, or 200 with the key
ApiSendAnswer ==
    /\ send.st = "set"
    /\ last.op = "set"
    /\ send' =
         IF ~last.ok
         THEN Answer(503, NullKey, <<"Service at Capacity">>)
         ELSE Answer(200, EncodeToString(ents[last.v].key), <<>>)
    /\ last' = NoRet
    /\ UNCHANGED <<backend, sizeLimit, clock, memVars, psVars, pc, call, ents,
                   obsVars>>

\* the handler returns; the server takes the next request
ApiSendReturn ==
    /\ send.st = "done"
    /\ send' = NoSend
    /\ last' = NoRet
    /\ UNCHANGED <<backend, sizeLimit, clock, memVars, psVars, pc, call, ents,
                   obsVars>>

\* the server: the store is constructed, then the handler is its only caller
SendNext ==
    \/ NewPersistentStore
    \/ \E p \in Procs, parsed \in BOOLEAN, enc \in FormEncs,
          hash \in FormHashes, sttl \in FormTTLs :
          ApiSend(p, parsed, enc, hash, sttl)
    \/ ApiSendSet
    \/ \E p \in Procs : PersistentStoreSetInsert(p)
    \/ \E p \in Procs : PersistentStoreSetAdded(p)
    \/ ApiSendAnswer
    \/ ApiSendReturn

SendSpec == Init /\ [][SendNext]_vars

\* ---- shorthands of the claims ---------------------------------------------
Created == 1..Len(ents)

\* entry e is in the collection
Stored(e) == IF backend = "memory" THEN data[ents[e].key] = e ELSE e \in items

\* the step just taken was the return of a Get
GetReturned == last.op = "get"

\* handler p is inside a Get that has removed, or is about to remove, entry e
Holding(p, e) == pc[p] \in {"cancel", "delete", "metric"} /\ call[p].v = e

\* ---- C1 -------------------------------------------------------------------
\* C1: MemoryStore: of the Get calls that present the right hash for one
\* entry, whatever their interleaving, exactly one returns ok=true: no entry
\* is released twice.
C1_MemoryReleasesOnce ==
    backend = "memory" => \A e \in Created : releases[e] <= 1

\* ---- C2 -------------------------------------------------------------------
\* C2: PersistentStore: of the Get calls that present the right key and hash
\* for one unexpired row, concurrent with each other and with the sweep,
\* exactly one returns ok=true with the row's ciphertext: no row is released
\* twice, a row that a Get removed before its expiry has been released once
\* that Get has returned, and every other such Get returns ok=false.
C2_PersistentReleasesOnce ==
    backend = "persistent" =>
        /\ \A e \in Created :
            /\ releases[e] <= 1
            /\ (/\ fate[e].how = "get"
                /\ ~IsExpired(e)
                /\ \A p \in Procs : ~Holding(p, e)
                /\ db = "open") => releases[e] = 1
        /\ (GetReturned /\ last.ok) =>
              /\ last.enc = ents[last.v].enc
              /\ releases[last.v] = 1
        /\ (GetReturned /\ last.v # 0 /\ ~Stored(last.v) /\ ~last.stale
              /\ \E p \in Procs : Holding(p, last.v)) => ~last.ok

\* two Gets for the same unexpired row overlap: one has just returned
\* ok=false while the other, which removed the row, has yet to return
C2_Witness ==
    /\ backend = "persistent"
    /\ GetReturned /\ ~last.ok /\ last.match
    /\ last.v # 0 /\ ~IsExpired(last.v)
    /\ \E p \in Procs : Holding(p, last.v)

\* ---- C3 -------------------------------------------------------------------
\* C3: once a Get has returned ok=true for an entry, no Get that starts
\* afterwards returns ok=true for that entry, and the entry is no longer in
\* the collection.
C3_NoReleaseAfterRelease ==
    /\ (GetReturned /\ last.ok) => ~last.late
    /\ \A e \in Created : releases[e] > 0 => ~Stored(e)

\* a Get that presents the key and hash of an already released entry has
\* just returned ok=false
C3_Witness ==
    /\ GetReturned /\ ~last.ok /\ last.match
    /\ last.v # 0 /\ releases[last.v] = 1
    /\ \A p \in Procs : pc[p] = "idle"

\* ---- C4 -------------------------------------------------------------------
\* C4: MemoryStore: no Get returns ok=true for an entry that the entry's own
\* timer callback has already removed and counted as expired.
C4_NoReleaseAfterEviction ==
    (backend = "memory" /\ GetReturned /\ last.ok) =>
        ~(fate[last.v].how = "timer" /\ fate[last.v].by = last.v)

\* ---- C5 -------------------------------------------------------------------
\* C5: a Get that starts after the ttl of the entry it asks for has elapsed,
\* the entry not having been asked for before, returns ok=false; expired has
\* then been incremented once for that entry and burned not at all.
C5_ExpiredGetFails ==
    (GetReturned /\ last.stale) =>
        /\ ~last.ok
        /\ (db = "open" \/ backend = "memory") =>
              acct[last.v] = [b |-> 0, x |-> 1]

\* ---- C6 -------------------------------------------------------------------
\* what a store holds: its entries, their timers and the three counters
StoreVars == <<data, timer, added, expired, burned, items, meta, ents>>

\* the step is a Get that returned without going on to remove anything
GetMissed == last'.op = "get" /\ pc' = pc

\* the step is handler p's Get going on to remove the entry it found
GetProceeds(p) == pc[p] = "idle" /\ call'[p].op = "get"

\* C6: a Get goes on to remove an entry only if the entry is stored under the
\* key presented and carries the hash presented; every other Get returns
\* ok=false and leaves entries, timers and counters unchanged; after a Get
\* with a wrong hash the entry is still stored where the right hash finds it.
C6_MissMutatesNothing ==
    /\ [][ /\ GetMissed => (~last'.ok /\ UNCHANGED StoreVars)
           /\ \A p \in Procs : GetProceeds(p) =>
                 /\ Stored(call'[p].v)
                 /\ ents[call'[p].v].key = call'[p].key
                 /\ ents[call'[p].v].hash = call'[p].hash ]_vars
    /\ [] ((GetReturned /\ last.v # 0 /\ ~last.match) =>
              /\ ~last.ok
              /\ Stored(last.v)
              /\ backend = "memory" =>
                    MemHit(ents[last.v].key, ents[last.v].hash)
              /\ (backend = "persistent" /\ db = "open") =>
                    GetQueryRow(ents[last.v].key, ents[last.v].hash) = last.v)

\* a Get with the wrong hash for a stored, unexpired entry has just returned
\* ok=false, and in a memory store the entry's timer is still pending
C6_Witness ==
    /\ GetReturned /\ ~last.ok /\ last.v # 0 /\ ~last.match
    /\ Stored(last.v) /\ ~IsExpired(last.v)
    /\ backend = "memory" => timer[last.v] = "pending"

\* ---- C7 -------------------------------------------------------------------
\* C7: a Get that starts right after the return of a successful Set, with the
\* key that Set returned and its hash, and returns before the expiry, no other
\* Get having taken the entry and nothing else having touched the store since
\* the Set began, returns the ciphertext
\* with ok=true; added and burned are each one more than before the Set and
\* the live count is what it was before the Set.
C7_RoundTrip ==
    (/\ GetReturned /\ last.rt
     /\ last.v = Len(ents)
     /\ ~IsExpired(last.v)
     /\ releases[last.v] = IF last.ok THEN 1 ELSE 0
     /\ backend = "persistent" => db = "open"
     /\ last.m0.added = Len(ents) - 1
     /\ \A e \in Created \ {last.v} :
           acct[e] = NoAcct /\ fate[e].how \in {"none", "set"}
     /\ \A p \in Procs : pc[p] = "idle")
    => /\ last.ok
       /\ last.enc = ents[last.v].enc
       /\ Metrics.added = last.m0.added + 1
       /\ Metrics.burned = last.m0.burned + 1
       /\ Metrics.size = last.m0.size

\* ---- C8 -------------------------------------------------------------------
\* len(kv.data) / count(*) of the constructed store
LiveCount == IF backend = "memory" THEN MemLen ELSE ItemCount

\* the step is a Set call making its capacity test: it returns at once or
\* goes on to its INSERT
SetCalled ==
    \/ last'.op = "set" /\ pc' = pc
    \/ \E p \in Procs : pc[p] = "idle" /\ pc'[p] = "insert"

\* C8: with a capacity of at least 1, a Set called while the live count is at
\* or above the capacity returns ok=false and leaves entries, timers and
\* counters unchanged; the live count of a store of capacity 1 that has one
\* entry stays 1.
C8_SetAtCapacityFails ==
    [][ (SetCalled /\ sizeLimit >= 1 /\ LiveCount >= sizeLimit) =>
            /\ last' = SetFail
            /\ UNCHANGED StoreVars
            /\ LiveCount' = LiveCount ]_vars

\* a Set on a full store of capacity 1 has just returned ok=false and the
\* live count is 1
C8_Witness ==
    /\ sizeLimit = 1 /\ LiveCount = 1
    /\ last = SetFail
    /\ \A p \in Procs : pc[p] = "idle"
    /\ backend = "persistent" => db = "open"

\* ---- C9 -------------------------------------------------------------------
\* C9: MemoryStore: in every state added = burned + expired + len(data).
C9_AddedBalance ==
    backend = "memory" => added = burned + expired + MemLen

\* ---- C10 ------------------------------------------------------------------
\* C10: PersistentStore: a row leaves the table only through a Get or, once
\* its expiry has passed, through an eviction, so Close and a reopen keep
\* every unexpired row; the key and hash it was stored with select it under
\* any later opening, and the Get that takes it before its expiry returns
\* ok=true with the ciphertext stored.
C10_SurvivesReopen ==
    backend = "persistent" =>
        /\ \A e \in Created :
              /\ ~Stored(e) =>
                    \/ fate[e].how = "get"
                    \/ fate[e].how \in {"sweep", "close"} /\ IsExpired(e)
              /\ (db = "open" /\ Stored(e)) =>
                    GetQueryRow(ents[e].key, ents[e].hash) = e
              /\ (/\ ents[e].opened < opens
                  /\ fate[e].how = "get" /\ ~IsExpired(e)
                  /\ \A p \in Procs : ~Holding(p, e)) => releases[e] = 1
        /\ (GetReturned /\ last.ok /\ ents[last.v].opened < opens) =>
              last.enc = ents[last.v].enc

\* a Get has just returned ok=true with the ciphertext of a row that was
\* stored before the store was closed and opened again
C10_Witness ==
    /\ backend = "persistent"
    /\ GetReturned /\ last.ok
    /\ ents[last.v].opened < opens
    /\ last.enc = ents[last.v].enc

\* ---- C11 ------------------------------------------------------------------
\* C11: PersistentStore: while the store is open the seed it holds is the
\* seed persisted in the meta row, and two rows stored for the same
\* ciphertext, before and after a reopen, carry the same key.
C11_SeedMatchesMeta ==
    backend = "persistent" =>
        /\ (db = "open" /\ meta # <<>>) => psSeed = DecodeString(meta[1].seed)
        /\ \A e, f \in Created : ents[e].enc = ents[f].enc =>
                                    ents[e].key = ents[f].key

\* ---- C12 ------------------------------------------------------------------
\* Close is past ps.gc.Stop() and has not closed the handle yet
Closing == closer.pc \in {"evict", "update", "dbclose"}

\* C12: PersistentStore.Close stops the ticker first, then deletes exactly
\* the rows whose expiry has passed, adds their number to expired, then
\* closes the handle; when it has returned, the ticker is stopped, the handle
\* is closed and every row its sweep deleted has been counted once as expired.
C12_CloseSweepsExpired ==
    /\ [] (backend = "persistent" =>
             /\ Closing => (~gc /\ db = "open")
             /\ closer.pc = "closed" => (~gc /\ db = "closed")
             /\ closer.pc \in {"dbclose", "closed"} =>
                   \A e \in Created :
                       fate[e].how = "close" => (~Stored(e) /\ acct[e].x = 1))
    /\ [][ backend = "persistent" =>
             /\ (closer.pc = "idle" /\ closer'.pc # "idle") =>
                   (~gc' /\ closer'.pc = "evict" /\ UNCHANGED <<items, meta, db>>)
             /\ (closer.pc = "evict" /\ closer'.pc # "evict") =>
                   /\ items' = {e \in items : ents[e].expiry >= clock}
                   /\ closer'.n = Cardinality(items \ items')
                   /\ closer'.pc = IF items' # items THEN "update" ELSE "dbclose"
                   /\ UNCHANGED <<meta, db>>
             /\ (closer.pc = "update" /\ closer'.pc # "update") =>
                   /\ meta'[1].expired = meta[1].expired + closer.n
                   /\ closer'.pc = "dbclose"
                   /\ UNCHANGED <<items, db>>
             /\ (closer.pc = "dbclose" /\ closer'.pc # "dbclose") =>
                   (db' = "closed" /\ closer'.pc = "closed"
                    /\ UNCHANGED <<items, meta>>) ]_vars

\* Close has returned after its sweep deleted an expired row and counted it
C12_Witness ==
    /\ backend = "persistent"
    /\ closer.pc = "closed" /\ db = "closed" /\ ~gc
    /\ \E e \in Created : fate[e].how = "close" /\ acct[e].x = 1
    /\ meta[1].expired >= 1

\* ---- C13 ------------------------------------------------------------------
\* no handler, sweep or Close is in the middle of a call
Quiet ==
    /\ \A p \in Procs : pc[p] = "idle"
    /\ closer.pc = "idle"
    /\ sweep.pc \in {"none", "wait"}

\* whether MemoryStore.Set stores, on a store of capacity c with n entries
MemSetAccepts(c, n) == ~(c > 0 /\ c <= n)

\* whether PersistentStore.Set stores, on an open store of capacity c with n
\* rows; present: a row with the key is in the table
PSSetAccepts(c, n, present) == ~(n >= c) /\ ~present

\* C13: the backends answer a Set alike: a Set that one backend accepted on
\* a store of some capacity, live count and content is one the other backend
\* accepts on the same, and a Set that one refused is one the other refuses.
C13_BackendsAgree ==
    (last.op = "set" /\ Quiet /\ (backend = "persistent" => db = "open")) =>
        IF last.ok
        THEN LET present == \E e \in Created :
                               fate[e] = [how |-> "set", by |-> last.v]
             IN IF backend = "memory"
                THEN PSSetAccepts(sizeLimit, last.m0.size, present)
                ELSE MemSetAccepts(sizeLimit, last.m0.size)
        ELSE IF backend = "memory"
             THEN \A present \in BOOLEAN :
                     ~PSSetAccepts(sizeLimit, LiveCount, present)
             ELSE ~MemSetAccepts(sizeLimit, LiveCount)

\* ---- C14 ------------------------------------------------------------------
\* C14: a Get that returns ok=false returns the empty ciphertext, whether the
\* key was never stored, the hash was wrong, the entry had been released or
\* the entry had expired: the pair returned is the same in all four cases.
C14_FailingGetsAlike ==
    (GetReturned /\ ~last.ok) => last.enc = ""

\* a PersistentStore Get whose query returned the ciphertext of an expired
\* row has just returned ok=false
C14_Witness ==
    /\ backend = "persistent"
    /\ GetReturned /\ ~last.ok /\ last.enc = ""
    /\ last.v # 0 /\ last.match /\ last.stale
    /\ acct[last.v].x = 1

\* ---- C15 ------------------------------------------------------------------
\* the step is taken by no handler: no call advances and none returns
Background == pc' = pc /\ last' = NoRet

\* C15: once Close has returned, no step of a timer callback or of the sweep
\* goroutine changes the entries or the counters of the store.
C15_NothingRunsAfterClose ==
    [][ (closer.pc = "closed" /\ closer'.pc = "closed" /\ Background) =>
            UNCHANGED <<data, added, expired, burned, items, meta>> ]_vars

\* ---- C16 ------------------------------------------------------------------
\* C16: a NewPersistentStore that returns an error returns no store and
\* starts nothing: no handle is open, no ticker runs, no sweep goroutine has
\* been started and the tables are as they were; a step that starts a sweep
\* goroutine is an open that returned no error.
C16_OpenErrorStartsNothing ==
    [][ /\ last'.op = "open" =>
              /\ ~last'.ok
              /\ db' = "closed" /\ ~gc'
              /\ sweep'.pc \in {"none", "wait"}
              /\ UNCHANGED <<sweep, items, meta, psSeed, opens, closer>>
        /\ (sweep.pc \in {"none", "wait"} /\ sweep'.pc = "evict" /\ ~gc) =>
              (last'.op # "open" /\ db' = "open" /\ gc' /\ opens' = opens + 1)
      ]_vars

\* NewPersistentStore has just returned an error on a database that an
\* earlier run left behind
C16_Witness ==
    /\ last = OpenError
    /\ meta # <<>> /\ opens = 1
    /\ db = "closed" /\ ~gc /\ sweep.pc = "wait"

\* ---- C17 ------------------------------------------------------------------
\* C17: MemoryStore: no entry has both burned and expired incremented on its
\* behalf: once a Get has taken an entry its timer callback does not count
\* it, and the other way round.
C17_BurnedOrExpired ==
    backend = "memory" =>
        \A e \in Created : ~(acct[e].b > 0 /\ acct[e].x > 0)

\* ---- C18 ------------------------------------------------------------------
\* C18: MemoryStore: an entry that a Get or a timer callback removed from
\* the map was removed by a Get that had looked up that very entry or by the
\* callback of its own timer, and by the latter no earlier than its expiry.
C18_RemovedByOwnGetOrTimer ==
    backend = "memory" =>
        \A e \in Created :
            /\ fate[e].how \in {"get", "timer"} => fate[e].by = e
            /\ fate[e].how = "timer" => clock >= ents[e].expiry

\* ---- C19 ------------------------------------------------------------------
\* C19: a Set of a ciphertext whose key is already stored, the capacity test
\* having passed, returns ok=true and leaves under the key a new entry with
\* the hash and the expiry of this call.
C19_LastWriteWins ==
    [][ /\ (backend = "memory" /\ last'.op = "set" /\ ~last'.ok) =>
              (sizeLimit > 0 /\ MemLen >= sizeLimit)
        /\ (backend = "memory" /\ last'.op = "set" /\ last'.ok) =>
              /\ last'.v \notin Created
              /\ data'[ents'[last'.v].key] = last'.v
        /\ \A p \in Procs :
              (/\ backend = "persistent" /\ db = "open"
               /\ pc[p] = "insert" /\ pc'[p] # "insert"
               /\ RowOf(call[p].key) # 0) =>
                  /\ pc'[p] = "added"
                  /\ \E r \in items' \ items :
                        /\ ents'[r].key = call[p].key
                        /\ ents'[r].hash = call[p].hash
                        /\ ents'[r].expiry = clock + call[p].ttl ]_vars

\* ---- C20 ------------------------------------------------------------------
\* added = burned + expired + count(*) on the tables
Balanced ==
    meta[1].added = meta[1].burned + meta[1].expired + ItemCount

\* no INSERT went uncounted and no removed row went uncounted: no UPDATE of
\* meta has failed
NoneLost ==
    /\ meta[1].added = Len(ents)
    /\ \A e \in Created : ~Stored(e) => acct[e] # NoAcct

\* C20: PersistentStore: while no Set, Get, sweep or Close is in progress and
\* no statement has failed, added = burned + expired + count(*): on an open
\* store that no Close has touched yet, on any open store whose updates all
\* succeeded, and on the tables a Close has left; and no row is ever counted
\* more than once.
C20_MetaBalanced ==
    backend = "persistent" =>
        /\ (Quiet /\ db = "open" /\ opens = 1) => Balanced
        /\ (Quiet /\ db = "open" /\ NoneLost) => Balanced
        /\ (/\ closer.pc = "closed"
            /\ \A p \in Procs : pc[p] = "idle"
            /\ sweep.pc = "wait"
            /\ NoneLost) => Balanced
        /\ \A e \in Created : acct[e].b + acct[e].x <= 1

\* a quiet open store in which one row was burned by a Get and another was
\* evicted by the sweep and counted as expired
C20_Witness ==
    /\ backend = "persistent"
    /\ Quiet /\ db = "open"
    /\ meta[1].burned = 1 /\ meta[1].expired = 1 /\ meta[1].added = 2
    /\ \E e \in Created : fate[e].how = "sweep" /\ acct[e].x = 1

\* ---- C21 ------------------------------------------------------------------
\* the three counters as a Metrics call that runs in this state reads them
Counters == <<Metrics.added, Metrics.expired, Metrics.burned>>

\* C21: every step that inserts or removes an entry changes, in that same
\* step, the counter that describes the change: an insert adds 1 to added, a
\* removal adds to burned or expired, so no Metrics call sees one without
\* the other.
C21_AtomicCounters ==
    [][ /\ (backend = "memory" /\ data' # data) => Counters' # Counters
        /\ (backend = "persistent" /\ items' # items) =>
              /\ Counters' # Counters
              /\ Len(ents') > Len(ents) =>
                    meta'[1].added = meta[1].added + 1 ]_vars

\* ---- C22 ------------------------------------------------------------------
\* handler p's Get runs its UPDATE of meta and returns, on an open handle
GetCounts(p) ==
    /\ backend = "persistent"
    /\ pc[p] = "metric" /\ pc'[p] = "idle"
    /\ db = "open" /\ meta # <<>>

\* C22: PersistentStore.Get with the right key and hash deletes the row it
\* names, expired or not.  When the row's expiry has passed it returns
\* ("", false), adds 1 to expired and leaves burned alone; when it has not it
\* returns the ciphertext with ok=true, adds 1 to burned and leaves expired
\* alone.  (The counter statement is taken to succeed: the handle is open.)
C22_ExpiredRowGet ==
    [][ \A p \in Procs :
             /\ (backend = "persistent" /\ GetProceeds(p)) =>
                   /\ call'[p].v \in items
                   /\ items' = items \ {call'[p].v}
                   /\ meta' = meta
             /\ GetCounts(p) =>
                   LET e == call[p].v IN
                   /\ e \notin items /\ items' = items
                   /\ call[p].stale => ~last'.ok
                   /\ last'.op = "get" /\ last'.v = e
                   /\ IF clock > ents[e].expiry
                      THEN /\ ~last'.ok /\ last'.enc = ""
                           /\ meta'[1] = [meta[1] EXCEPT !.expired = @ + 1]
                      ELSE /\ last'.ok /\ last'.enc = ents[e].enc
                           /\ meta'[1] = [meta[1] EXCEPT !.burned = @ + 1]
      ]_vars

\* a Get has found an expired row the sweep had not deleted yet, deleted it,
\* counted it as expired and returned ("", false) on an open store
C22_Witness ==
    /\ backend = "persistent" /\ db = "open"
    /\ GetReturned /\ last.stale /\ ~last.ok /\ last.enc = ""
    /\ fate[last.v].how = "get" /\ ~Stored(last.v)
    /\ acct[last.v] = [b |-> 0, x |-> 1]
    /\ meta[1].expired = 1 /\ meta[1].burned = 0

\* ---- C23 ------------------------------------------------------------------
\* the sweep goroutine leaves the statement it is at
SweepLeaves(at) ==
    backend = "persistent" /\ sweep.pc = at /\ sweep'.pc # at /\ db = "open"

\* C23: one evict of the sweep goroutine deletes the rows of items whose
\* expiry is earlier than the current second and no other row, then adds the
\* number of rows it deleted to expired and leaves added and burned alone.
C23_SweepFrame ==
    [][ /\ SweepLeaves("evict") =>
              /\ items' = {e \in items : ~(ents[e].expiry < clock)}
              /\ sweep'.n = Cardinality(items \ items')
              /\ sweep'.pc = "update" <=> items' # items
              /\ meta' = meta
        /\ SweepLeaves("update") =>
              /\ items' = items
              /\ meta'[1] = [meta[1] EXCEPT !.expired = @ + sweep.n]
              /\ sweep.n = Cardinality(sweep.rows)
              /\ sweep.rows \cap items = {} ]_vars

\* the sweep has deleted an expired row and added it to expired, and is back
\* at its ticker
C23_Witness ==
    /\ backend = "persistent" /\ db = "open" /\ sweep.pc = "wait"
    /\ \E e \in Created : fate[e].how = "sweep" /\ acct[e].x = 1 /\ ~Stored(e)
    /\ meta[1].expired = 1 /\ meta[1].burned = 0 /\ meta[1].added = 1

\* ---- C25 ------------------------------------------------------------------
\* the Set calls that have passed the capacity test and not yet inserted
InFlight == {p \in Procs : pc[p] = "insert"}

C26_HardLimit ==
    (backend = "memory" /\ sizeLimit > 0) => MemLen <= sizeLimit

\* a store of capacity 1 is full again after an entry was stored, released
\* and another one stored
C26_Witness ==
    /\ backend = "memory" /\ sizeLimit = 1
    /\ MemLen = sizeLimit /\ added = 2 /\ burned = 1
    /\ last.op = "set" /\ last.ok

\* ---- C27 ------------------------------------------------------------------
\* handler p runs the counter UPDATE of its call at pc `at` and returns, and
\* the UPDATE fails: the handle is closed
UpdateFails(p, at) ==
    /\ backend = "persistent"
    /\ pc[p] = at /\ pc'[p] = "idle"
    /\ db # "open"

\* C27: PersistentStore: when the UPDATE of meta that follows a Set's INSERT
\* or a Get's DELETE fails, the call returns what it returns otherwise (the
\* identifier with ok=true; the ciphertext with ok=true for an unexpired
\* row); the counters stay as they were and the table is not touched again.
C27_FailedUpdateIgnored ==
    [][ \A p \in Procs :
          /\ UpdateFails(p, "added") =>
                /\ last'.op = "set" /\ last'.ok /\ last'.v = call[p].v
                /\ ents[last'.v].key = call[p].key
                /\ UNCHANGED <<items, meta>>
          /\ UpdateFails(p, "metric") =>
                /\ last'.op = "get" /\ last'.v = call[p].v
                /\ ~(clock > ents[call[p].v].expiry) =>
                      (last'.ok /\ last'.enc = ents[call[p].v].enc)
                /\ call[p].v \notin items
                /\ UNCHANGED <<items, meta>> ]_vars

\* a Set has returned ok=true for a row that is in the table while added
\* still reads 0: the handle was closed before its UPDATE
C27_Witness ==
    /\ backend = "persistent" /\ db = "closed"
    /\ last.op = "set" /\ last.ok
    /\ Stored(last.v)
    /\ meta[1].added = 0

\* ---- C28 ------------------------------------------------------------------
\* C28: PersistentStore: at every second Get's test (now > expiry) is true of
\* a row exactly when evictionQuery (expiry < now) selects it.  A Get that
\* tests a row in the second of its expiry returns ok=true, a Get returns
\* ok=false exactly for a row a sweep of that second would select, and a
\* sweep in the second of a row's expiry leaves the row in the table.
C28_GetAndSweepAgree ==
    /\ [] (backend = "persistent" =>
             \A e \in items : IsExpired(e) <=> e \in Expired)
    /\ [][ /\ \A p \in Procs :
                (backend = "persistent" /\ pc[p] = "metric" /\ pc'[p] = "idle")
                   => (last'.ok <=> ~(ents[call[p].v].expiry < clock))
           /\ SweepLeaves("evict") =>
                 \A e \in items : ents[e].expiry = clock => e \in items'
         ]_vars

\* a Get has released a row in the very second of its expiry
C28_Witness ==
    /\ backend = "persistent"
    /\ GetReturned /\ last.ok
    /\ clock = ents[last.v].expiry

\* ---- C29 ------------------------------------------------------------------
\* C29: with capacity 0 the MemoryStore has no limit: every Set returns
\* ok=true and stores its entry, whatever len(data) is; the PersistentStore
\* has a limit of zero: every Set returns ok=false, none gets as far as its
\* INSERT and the table stays empty.
C29_CapacityZero ==
    sizeLimit = 0 =>
        /\ backend = "memory" =>
              (last.op = "set" => (last.ok /\ Stored(last.v)))
        /\ backend = "persistent" =>
              /\ last.op = "set" => ~last.ok
              /\ \A p \in Procs : pc[p] \notin {"insert", "added"}
              /\ items = {} /\ ents = <<>>

\* a MemoryStore of capacity 0 has accepted a Set with an entry stored
\* already: it holds two
C29_Witness ==
    /\ sizeLimit = 0 /\ backend = "memory"
    /\ last.op = "set" /\ last.ok
    /\ MemLen = 2

\* ---- C30 ------------------------------------------------------------------
\* the form values the handler read are well formed: enc is not empty and
\* has two ':' (three fields), hash has 43 characters and ttl is an integer
\* from 60 to 604800
ValidForm ==
    /\ send.enc # <<>>
    /\ Cardinality({i \in 1..Len(send.enc) : send.enc[i] = ":"}) = 2
    /\ Len(send.hash) = 43
    /\ ~Atoi(send.sttl).err
    /\ Atoi(send.sttl).n >= 60 /\ Atoi(send.sttl).n <= 604800

\* the step starts a Set or takes one further
SetRuns == last'.op = "set" \/ pc' # pc

\* C30: POST /api/send calls Set only for well-formed form values, with the
\* ttl they spell (never a ttl <= 0); for any other request it answers 400
\* without a key and leaves the store as it was; when Set returns ok=false it
\* answers 503 without a key, and 200 with the key otherwise.
C30_SendValidates ==
    /\ [] (/\ send.st = "set" =>
                (ValidForm /\ send.ttl = Atoi(send.sttl).n /\ send.ttl > 0)
           /\ send.code \in {0, 200, 400, 503}
           /\ send.code = 400 => (~ValidForm /\ send.key = NullKey)
           /\ send.code = 503 => (ValidForm /\ send.key = NullKey)
           /\ send.code = 200 => (ValidForm /\ send.key # NullKey)
           /\ \A p \in Procs : pc[p] # "idle" => call[p].ttl = send.ttl
           /\ \A e \in Created :
                 ents[e].expiry >= clock + 60 /\ ents[e].expiry <= clock + 604800)
    /\ [][ /\ (send.st = "idle" /\ send'.st = "done") =>
                 (send'.code = 400 /\ UNCHANGED StoreVars)
           /\ SetRuns => (send.st = "set" /\ send' = send)
           /\ (send.st = "set" /\ send'.st = "done") =>
                 /\ last.op = "set"
                 /\ send'.code = IF last.ok THEN 200 ELSE 503
                 /\ send'.key = IF last.ok
                                THEN EncodeToString(ents[last.v].key)
                                ELSE NullKey
                 /\ UNCHANGED StoreVars ]_vars

\* a well-formed request has been answered 503 without a key: the store
\* had no room for it
C30_Witness ==
    /\ send.st = "done" /\ send.code = 503 /\ send.key = NullKey
    /\ ValidForm
    /\ sizeLimit = 1 /\ LiveCount = 1

\* ---- C24 ------------------------------------------------------------------
\* the program with the scheduling its runtime gives it: the clock advances,
\* a timer whose time has come fires and its callback runs, and the sweep
\* goroutine takes each of its steps while its ticker runs
Fairness ==
    /\ WF_vars(Tick)
    /\ \A e \in Ids : WF_vars(TimerExpire(e)) /\ WF_vars(TimerCallback(e))
    /\ WF_vars(SweepWake) /\ WF_vars(SweepEvict) /\ WF_vars(SweepUpdate)

\* the program when no Get is called: Sets, the clock, the timers, the sweep
\* goroutine, Close and a new start
UnreadNext ==
    \/ Tick
    \/ \E p \in Procs, enc \in Encs, hash \in SetHashes, ttl \in TTLs :
          MemoryStoreSet(p, enc, hash, ttl)
    \/ \E e \in 1..Len(ents) : TimerExpire(e)
    \/ \E e \in 1..Len(ents) : TimerCallback(e)
    \/ MemoryStoreClose
    \/ NewPersistentStore
    \/ \E p \in Procs, enc \in Encs, hash \in SetHashes, ttl \in TTLs :
          PersistentStoreSet(p, enc, hash, ttl)
    \/ \E p \in Procs : PersistentStoreSetInsert(p)
    \/ \E p \in Procs : PersistentStoreSetAdded(p)
    \/ SweepEvict
    \/ SweepUpdate
    \/ SweepWake
    \/ PersistentStoreClose
    \/ CloseEvict
    \/ CloseUpdate
    \/ CloseDB

FairSpec == Init /\ [][UnreadNext]_vars /\ Fairness

\* entry e has been created and is in the collection
Kept(e) == e \in Created /\ Stored(e)

\* entry e is stored and its expiry comes within the time the clock covers
Awaited(e) ==
    /\ Kept(e)
    /\ IF backend = "memory" THEN ents[e].expiry <= MaxClock
                             ELSE ents[e].expiry < MaxClock

\* the PersistentStore is not open any more: Close has been called
NotOpen == backend = "persistent" /\ (db # "open" \/ closer.pc # "idle")

\* C24: an entry a Set has stored is eventually removed though no Get asks
\* for it: in the MemoryStore its timer fires and the callback deletes it, in
\* the PersistentStore, as long as the store stays open, a sweep after its
\* expiry deletes it.
C24_EventuallyRemoved ==
    \A e \in Ids : Awaited(e) ~> (~Kept(e) \/ NotOpen)

\* no Get has asked for an entry, its timer has fired and the callback has
\* deleted it
C24_Witness ==
    /\ backend = "memory"
    /\ \E e \in Created :
          /\ ~Stored(e) /\ fate[e].how = "timer" /\ fate[e].by = e
          /\ timer[e] = "done" /\ releases[e] = 0

====
